---------------------------- MODULE Spec2Model ----------------------------
(***************************************************************************)
(* Model of assert/_diff.ts: the sequence diff (diffSequence, the code     *)
(* diff delegates to), the statements of diff that follow its early        *)
(* return (the O(NP) engine with createCommon, createFP, snake and         *)
(* backTrace), and the text layer (unescape, tokenize, createDetails, the  *)
(* pairing loop of diffstr and the line rendering of buildMessage).        *)
(***************************************************************************)
EXTENDS Integers, Sequences, FiniteSets, TLC

(* ------------------------------ bounds -------------------------------- *)
\* longest input sequence handed to diffSequence / diff
MaxLen == 3
\* number of distinct element values of the input sequences
NumVals == 2

Vals == 1..NumVals
Seqs == UNION {[1..l -> Vals] : l \in 0..MaxLen}

(* ------------------------- DiffType, DiffResult ----------------------- *)
removed == "removed"
common == "common"
added == "added"

DiffResult(t, val) == [type |-> t, value |-> val]

Min(i, j) == IF i < j THEN i ELSE j
Max0(i) == IF i > 0 THEN i ELSE 0

VARIABLES
  a, b,            \* the two input sequences of diffSequence / diff
  pc,              \* position in the running function
  start,           \* diffSequence: length of the common prefix
  commonPrefix,    \* diffSequence: common entries collected at the start
  commonSuffix,    \* diffSequence: common entries collected at the end
  i,               \* diffSequence: counter of the suffix loop
  end,             \* diffSequence: commonSuffix.length
  n, m, max,       \* diffSequence: core lengths and maximal number of moves
  d, k, x, y,      \* diffSequence: depth, diagonal and current point
  v,               \* diffSequence: furthest x per diagonal (x >= 0 always,
                   \* so the Uint32Array stores it unchanged)
  trace,           \* diffSequence: copies of v, one per depth
  pred,            \* diffSequence: branch taken on line 219
  exit,            \* diffSequence: which return / loop exit was taken
  result,          \* the returned script
  textA, textB,    \* diffstr: the two input strings
  diffResult,      \* diffstr: the line script, its entries with details
  aLines, bLines,  \* diffstr: the shorter and the longer list of changed lines
  aPos,            \* diffstr: position of the loop over aLines
  tokens,          \* diffstr: the word script of the current pair
  pairing,         \* diffstr: a, b and how the search for b ended
  line,            \* createDetails: its first argument
  details,         \* createDetails: its result
  diffMessages     \* buildMessage: the rendered lines

textVars == <<textA, textB, diffResult, aLines, bLines, aPos, tokens, pairing,
              line, details, diffMessages>>

vars == <<a, b, pc, start, commonPrefix, commonSuffix, i, end, n, m, max,
          d, k, x, y, v, trace, pred, exit, result, textVars>>

aLen == Len(a)
bLen == Len(b)
minLen == IF aLen > bLen THEN bLen ELSE aLen
endLimit == minLen - start

(* --------------------------- diffSequence ----------------------------- *)
\* the locals of diffSequence before it runs
SequenceIdle ==
  /\ start = 0
  /\ commonPrefix = <<>>
  /\ commonSuffix = <<>>
  /\ i = 0
  /\ end = 0
  /\ n = 0 /\ m = 0 /\ max = 0
  /\ d = 0 /\ k = 0 /\ x = 0 /\ y = 0
  /\ v = <<>>
  /\ trace = <<>>
  /\ pred = "none"
  /\ exit = "none"
  /\ result = <<>>

\* the state of the text layer before diffstr runs
TextIdle ==
  /\ diffResult = <<>>
  /\ aLines = <<>>
  /\ bLines = <<>>
  /\ aPos = 0
  /\ tokens = <<>>
  /\ pairing = [a |-> 0, b |-> 0, hit |-> FALSE]
  /\ line = [type |-> common, value |-> <<>>]
  /\ details = <<>>
  /\ diffMessages = <<>>

Init ==
  /\ a \in Seqs
  /\ b \in Seqs
  /\ pc = "call"
  /\ SequenceIdle
  /\ textA = <<>> /\ textB = <<>>
  /\ TextIdle

\* line 151: both sequences are empty
ReturnEmpty ==
  /\ pc = "call"
  /\ aLen = 0 /\ bLen = 0
  /\ result' = <<>>
  /\ exit' = "empty"
  /\ pc' = "done"
  /\ UNCHANGED <<a, b, start, commonPrefix, commonSuffix, i, end, n, m, max,
                 d, k, x, y, v, trace, pred>>
  /\ UNCHANGED textVars

\* lines 158-160
Begin ==
  /\ pc = "call"
  /\ ~(aLen = 0 /\ bLen = 0)
  /\ commonPrefix' = <<>>
  /\ start' = 0
  /\ pc' = "prefix"
  /\ UNCHANGED <<a, b, commonSuffix, i, end, n, m, max, d, k, x, y, v, trace,
                 pred, exit, result>>
  /\ UNCHANGED textVars

\* lines 161-164, one iteration (sequences are 1-based here)
PrefixStep ==
  /\ pc = "prefix"
  /\ start < minLen
  /\ a[start + 1] = b[start + 1]
  /\ commonPrefix' = Append(commonPrefix, DiffResult(common, a[start + 1]))
  /\ start' = start + 1
  /\ UNCHANGED <<a, b, pc, commonSuffix, i, end, n, m, max, d, k, x, y, v,
                 trace, pred, exit, result>>
  /\ UNCHANGED textVars

\* lines 161-162 leaving the loop, lines 167-168
PrefixEnd ==
  /\ pc = "prefix"
  /\ IF start < minLen THEN a[start + 1] # b[start + 1] ELSE TRUE
  /\ commonSuffix' = <<>>
  /\ i' = 1
  /\ pc' = "suffix"
  /\ UNCHANGED <<a, b, start, commonPrefix, end, n, m, max, d, k, x, y, v,
                 trace, pred, exit, result>>
  /\ UNCHANGED textVars

\* lines 169-175, one iteration
SuffixStep ==
  /\ pc = "suffix"
  /\ i < endLimit + 1
  /\ a[aLen - i + 1] = b[bLen - i + 1]
  /\ commonSuffix' = Append(commonSuffix, DiffResult(common, a[aLen - i + 1]))
  /\ i' = i + 1
  /\ UNCHANGED <<a, b, pc, start, commonPrefix, end, n, m, max, d, k, x, y, v,
                 trace, pred, exit, result>>
  /\ UNCHANGED textVars

\* lines 169-171 leaving the loop, line 176
SuffixEnd ==
  /\ pc = "suffix"
  /\ IF i < endLimit + 1 THEN a[aLen - i + 1] # b[bLen - i + 1] ELSE TRUE
  /\ end' = Len(commonSuffix)
  /\ pc' = "check"
  /\ UNCHANGED <<a, b, start, commonPrefix, commonSuffix, i, n, m, max, d, k,
                 x, y, v, trace, pred, exit, result>>
  /\ UNCHANGED textVars

\* lines 180-182
ShortCircuit ==
  /\ pc = "check"
  /\ start + end = minLen
  /\ result' = <<>>
  /\ exit' = "short"
  /\ pc' = "done"
  /\ UNCHANGED <<a, b, start, commonPrefix, commonSuffix, i, end, n, m, max,
                 d, k, x, y, v, trace, pred>>
  /\ UNCHANGED textVars

\* lines 196-207 (loop initialisation)
SearchSetup ==
  /\ pc = "check"
  /\ start + end # minLen
  /\ n' = aLen - start - end
  /\ m' = bLen - start - end
  /\ max' = (bLen - start - end) + (aLen - start - end)
  /\ trace' = <<>>
  /\ v' = [j \in 0..(2 * max') |-> 0]
  /\ d' = 0
  /\ pc' = "depth"
  /\ UNCHANGED <<a, b, start, commonPrefix, commonSuffix, i, end, k, x, y,
                 pred, exit, result>>
  /\ UNCHANGED textVars

mMax == IF d - m > 0 THEN d - m ELSE 0
nMax == IF d - n > 0 THEN d - n ELSE 0

\* lines 207-215: the loop test of the depth loop holds
DepthBegin ==
  /\ pc = "depth"
  /\ d < max
  /\ trace' = IF d > 0 THEN Append(trace, v) ELSE trace
  /\ k' = -(d - 2 * mMax)
  /\ pc' = "diag"
  /\ UNCHANGED <<a, b, start, commonPrefix, commonSuffix, i, end, n, m, max,
                 d, x, y, v, pred, exit, result>>
  /\ UNCHANGED textVars

\* line 207: the loop test of the depth loop fails
DepthExhausted ==
  /\ pc = "depth"
  /\ ~(d < max)
  /\ exit' = "exhausted"
  /\ pc' = "dump"
  /\ UNCHANGED <<a, b, start, commonPrefix, commonSuffix, i, end, n, m, max,
                 d, k, x, y, v, trace, pred, result>>
  /\ UNCHANGED textVars

\* line 219
TakesInsert == k = -d \/ (k # d /\ v[(k - 1) + max] < v[(k + 1) + max])

\* lines 215-225
Choose ==
  /\ pc = "diag"
  /\ k < d - 2 * nMax + 1
  /\ IF TakesInsert
       THEN /\ x' = v[(k + 1) + max]
            /\ pred' = "k+1"
       ELSE /\ x' = v[max + (k - 1)] + 1
            /\ pred' = "k-1"
  /\ y' = x' - k
  /\ pc' = "slide"
  /\ UNCHANGED <<a, b, start, commonPrefix, commonSuffix, i, end, n, m, max,
                 d, k, v, trace, exit, result>>
  /\ UNCHANGED textVars

\* line 215: the diagonal loop is over, line 207: d++
NextDepth ==
  /\ pc = "diag"
  /\ ~(k < d - 2 * nMax + 1)
  /\ d' = d + 1
  /\ pc' = "depth"
  /\ UNCHANGED <<a, b, start, commonPrefix, commonSuffix, i, end, n, m, max,
                 k, x, y, v, trace, pred, exit, result>>
  /\ UNCHANGED textVars

CanSlide == x < n /\ y < m /\ a[x + start + 1] = b[y + start + 1]

\* lines 228-231, one iteration
Slide ==
  /\ pc = "slide"
  /\ CanSlide
  /\ x' = x + 1
  /\ y' = y + 1
  /\ UNCHANGED <<a, b, pc, start, commonPrefix, commonSuffix, i, end, n, m,
                 max, d, k, v, trace, pred, exit, result>>
  /\ UNCHANGED textVars

\* line 236
ReachedEnd == x >= n /\ y >= m

\* lines 233-239: the end is reached, break search
StoreFound ==
  /\ pc = "slide"
  /\ ~CanSlide
  /\ v' = [v EXCEPT ![k + max] = x]
  /\ ReachedEnd
  /\ exit' = "found"
  /\ pc' = "dump"
  /\ UNCHANGED <<a, b, start, commonPrefix, commonSuffix, i, end, n, m, max,
                 d, k, x, y, trace, pred, result>>
  /\ UNCHANGED textVars

\* lines 233-236, line 215: k += 2
StoreNext ==
  /\ pc = "slide"
  /\ ~CanSlide
  /\ v' = [v EXCEPT ![k + max] = x]
  /\ ~ReachedEnd
  /\ k' = k + 2
  /\ pc' = "diag"
  /\ UNCHANGED <<a, b, start, commonPrefix, commonSuffix, i, end, n, m, max,
                 d, x, y, trace, pred, exit, result>>
  /\ UNCHANGED textVars

\* lines 243-254
Dump ==
  /\ pc = "dump"
  /\ result' = <<>>
  /\ pc' = "done"
  /\ UNCHANGED <<a, b, start, commonPrefix, commonSuffix, i, end, n, m, max,
                 d, k, x, y, v, trace, pred, exit>>
  /\ UNCHANGED textVars

Next ==
  \/ ReturnEmpty
  \/ Begin
  \/ PrefixStep
  \/ PrefixEnd
  \/ SuffixStep
  \/ SuffixEnd
  \/ ShortCircuit
  \/ SearchSetup
  \/ DepthBegin
  \/ DepthExhausted
  \/ Choose
  \/ NextDepth
  \/ Slide
  \/ StoreFound
  \/ StoreNext
  \/ Dump

Spec == Init /\ [][Next]_vars

(* ---------------- reading a script, reference edit distance ----------- *)
IsNotRemoved(e) == e.type # removed
IsNotAdded(e) == e.type # added
IsNotCommon(e) == e.type # common

ValuesOf(script) == [j \in 1..Len(script) |-> script[j].value]

\* replay against A: removed entries are dropped, added entries inserted,
\* common entries kept, in script order: what is left is B
ReplayForward(script) == ValuesOf(SelectSeq(script, IsNotRemoved))
\* the inverse replay against B: added entries dropped, removed inserted
ReplayBackward(script) == ValuesOf(SelectSeq(script, IsNotAdded))

NonCommonCount(script) == Len(SelectSeq(script, IsNotCommon))

AllOfType(t, s) == [j \in 1..Len(s) |-> DiffResult(t, s[j])]

RECURSIVE LCS(_, _)
LCS(s, t) ==
  IF s = <<>> \/ t = <<>> THEN 0
  ELSE IF Head(s) = Head(t) THEN 1 + LCS(Tail(s), Tail(t))
  ELSE LET l == LCS(Tail(s), t)
           r == LCS(s, Tail(t))
       IN IF l > r THEN l ELSE r

\* insert/delete edit distance
EditDistance(s, t) == Len(s) + Len(t) - 2 * LCS(s, t)

\* what is left of an input of diffSequence between prefix and suffix
Core(s) == SubSeq(s, start + 1, Len(s) - end)

(* ----------------------- claims on diffSequence ----------------------- *)
Returned == pc = "done"

\* C1: the script returned by diffSequence(A, B), replayed against A, yields
\* exactly B, and the inverse replay against B yields exactly A.
C1_RoundTrip ==
  Returned => ReplayForward(result) = b /\ ReplayBackward(result) = a

\* C2: the number of added plus removed entries of the returned script is
\* the insert/delete edit distance |A| + |B| - 2 * LCS(A, B).
C2_Minimality ==
  Returned => NonCommonCount(result) = EditDistance(a, b)

\* C3: diffSequence(A, A) returns exactly |A| entries, all common, whose
\* values are the elements of A in order.
C3_Identity ==
  (Returned /\ a = b) => result = AllOfType(common, a)

\* C4: diffSequence([], []) is the empty script; for empty A the script is
\* one added entry per element of B in order; for empty B it is one removed
\* entry per element of A in order.
C4_EmptyInputs ==
  Returned =>
    /\ (a = <<>> /\ b = <<>>) => result = <<>>
    /\ (a = <<>> /\ b # <<>>) => result = AllOfType(added, b)
    /\ (a # <<>> /\ b = <<>>) => result = AllOfType(removed, a)

\* C8: whenever start + end === minLen (the condition of the early return
\* of line 180) the two inputs are equal: the core of both is empty.
C8_ShortCircuitSound ==
  (pc = "check" /\ start + end = minLen) =>
    a = b /\ Core(a) = <<>> /\ Core(b) = <<>>

\* C9: past the early returns the depth loop is left through the 'reached
\* the end' branch with x = n and y = m, at a depth d that is the edit
\* distance of the trimmed cores; it never runs out of depths.
C9_SearchCompletes ==
  (pc \in {"dump", "done"} /\ exit \notin {"empty", "short"}) =>
    /\ exit = "found"
    /\ x = n /\ y = m
    /\ d = EditDistance(Core(a), Core(b))

\* the diagonals visited at depth dd (line 215)
LowDiag(dd) == -(dd - 2 * Max0(dd - m))
HighDiag(dd) == dd - 2 * Max0(dd - n)
\* both neighbours of diagonal k were reached at depth d - 1
BothNeighbours ==
  /\ d >= 1
  /\ LowDiag(d - 1) <= k - 1
  /\ k + 1 <= HighDiag(d - 1)
\* reach on k of the insert-move (from k + 1) and of the delete-move (from
\* k - 1); v[k - 1] and v[k + 1] are not written while diagonal k is worked on
InsertReach == v[(k + 1) + max]
DeleteReach == v[(k - 1) + max] + 1
HasAdded(script) == \E j \in DOMAIN script : script[j].type = added

\* the choice of line 219 on a diagonal with both neighbours: the larger
\* reach wins and an exact tie goes to the insert-move
TieBreakChoice ==
  (pc = "slide" /\ BothNeighbours) =>
    /\ InsertReach > DeleteReach => pred = "k+1"
    /\ DeleteReach > InsertReach => pred = "k-1"
    /\ InsertReach = DeleteReach => pred = "k+1"

\* C10: on every visited diagonal the predecessor chosen is the neighbour
\* with the larger reach; on an exact tie the move recorded is the
\* insert-move, which consumes an element of B and appears in the script as
\* an added entry (stated for the move that ends the search, which is on
\* the path the script describes).
C10_TieBreak ==
  /\ TieBreakChoice
  /\ (Returned /\ exit = "found" /\ BothNeighbours
        /\ InsertReach = DeleteReach) =>
       pred = "k+1" /\ HasAdded(result)

(* ---------- diff: the statements after the return of line 303 --------- *)
REMOVED == 1
COMMON == 2
ADDED == 3

\* the value read at an index outside of an array
Undefined == "undefined"

Reverse(s) == [j \in 1..Len(s) |-> s[Len(s) + 1 - j]]

\* Array.prototype.slice(from) and slice(from, -back) with back > 0
SliceFrom(s, from) == SubSeq(s, from + 1, Len(s))
SliceFromTo(s, from, back) == SubSeq(s, from + 1, Len(s) - back)

\* lines 38-46, from loop index j on
RECURSIVE createCommonFrom(_, _, _, _)
createCommonFrom(A, B, reverse, j) ==
  IF j < Min(Len(A), Len(B))
  THEN LET ai == IF reverse THEN A[Len(A) - j] ELSE A[j + 1]
           bi == IF reverse THEN B[Len(B) - j] ELSE B[j + 1]
       IN IF ai = bi
            THEN <<ai>> \o createCommonFrom(A, B, reverse, j + 1)
            ELSE <<>>
  ELSE <<>>

\* createCommon without the return of line 45: the scan goes on after the
\* first mismatch
RECURSIVE createCommonAll(_, _, _, _)
createCommonAll(A, B, reverse, j) ==
  IF j < Min(Len(A), Len(B))
  THEN LET ai == IF reverse THEN A[Len(A) - j] ELSE A[j + 1]
           bi == IF reverse THEN B[Len(B) - j] ELSE B[j + 1]
       IN (IF ai = bi THEN <<ai>> ELSE <<>>)
            \o createCommonAll(A, B, reverse, j + 1)
  ELSE <<>>

createCommonNoStop(A, B, reverse) ==
  IF Len(A) = 0 \/ Len(B) = 0 THEN <<>>
  ELSE createCommonAll(A, B, reverse, 0)

createCommon(A, B, reverse) ==
  IF Len(A) = 0 \/ Len(B) = 0 THEN <<>>
  ELSE createCommonFrom(A, B, reverse, 0)

\* interface FarthestPoint; def is FALSE for the undefined read outside of fp
FarthestPoint(yy, idd) == [y |-> yy, id |-> idd, def |-> TRUE]
undefinedFP == [y |-> 0, id |-> 0, def |-> FALSE]

FpAt(fp, idx) == IF idx \in DOMAIN fp THEN fp[idx] ELSE undefinedFP
FpPut(fp, idx, val) ==
  IF idx \in DOMAIN fp THEN [fp EXCEPT ![idx] = val] ELSE fp @@ (idx :> val)

\* a read of the Uint32Array routes; a read outside of it is undefined,
\* which line 375 and the tests of lines 377-389 treat like 0
RoutesAt(routes, idx) == IF idx \in DOMAIN routes THEN routes[idx] ELSE 0

\* ptr++; routes[ptr] = prev; routes[ptr + diffTypesPtrOffset] = type
\* (the ids stored are never negative, so Uint32 stores them unchanged)
RoutesPush(e, prev, type, off) ==
  [e EXCEPT !.ptr = @ + 1,
            !.routes = [@ EXCEPT ![e.ptr + 1] = prev,
                                 ![e.ptr + 1 + off] = type]]

\* a property read on undefined throws a TypeError
Throw(e) == [fp |-> undefinedFP, e |-> [e EXCEPT !.err = TRUE]]

\* lines 400-426; e is the state createFP closes over (routes, ptr)
createFP(slide, down, kk, MM, off, e) ==
  IF slide.def /\ slide.y = -1 /\ down.def /\ down.y = -1
  THEN [fp |-> FarthestPoint(0, 0), e |-> e]
  ELSE IF \/ (down.def /\ down.y = -1)
          \/ kk = MM
          \/ (slide.def /\ down.def /\ slide.y > down.y + 1)
  THEN IF ~slide.def THEN Throw(e)
       ELSE [fp |-> FarthestPoint(slide.y, e.ptr + 1),
             e |-> RoutesPush(e, slide.id, ADDED, off)]
  ELSE IF ~down.def THEN Throw(e)
       ELSE [fp |-> FarthestPoint(down.y + 1, e.ptr + 1),
             e |-> RoutesPush(e, down.id, REMOVED, off)]

\* A[i0] === B[j0] with 0-based indices
ElemEq(A, i0, B, j0) ==
  /\ i0 + 1 \in DOMAIN A
  /\ j0 + 1 \in DOMAIN B
  /\ A[i0 + 1] = B[j0 + 1]

\* lines 440-447
RECURSIVE snakeLoop(_, _, _, _)
snakeLoop(kk, pt, c, e) ==
  IF pt.y + kk < c.M /\ pt.y < c.N /\ ElemEq(c.A, pt.y + kk, c.B, pt.y)
  THEN snakeLoop(kk, FarthestPoint(pt.y + 1, e.ptr + 1), c,
                 RoutesPush(e, pt.id, COMMON, c.off))
  ELSE [fp |-> pt, e |-> e]

\* lines 428-449
snake(kk, slide, down, c, e) ==
  IF kk < -c.N \/ c.M < kk THEN [fp |-> FarthestPoint(-1, -1), e |-> e]
  ELSE LET r == createFP(slide, down, kk, c.M, c.off, e)
       IN IF r.e.err THEN r ELSE snakeLoop(kk, r.fp, c, r.e)

\* fp[k + offset] = snake(k, fp[k - 1 + offset], fp[k + 1 + offset], ...)
visit(kk, c, e) ==
  LET r == snake(kk, FpAt(e.fp, kk - 1 + c.offset),
                 FpAt(e.fp, kk + 1 + c.offset), c, e)
  IN [r.e EXCEPT !.fp = FpPut(@, kk + c.offset, r.fp)]

\* lines 453-462
RECURSIVE lowLoop(_, _, _)
lowLoop(kk, c, e) ==
  IF kk < c.delta /\ ~e.err THEN lowLoop(kk + 1, c, visit(kk, c, e)) ELSE e

\* lines 463-472
RECURSIVE highLoop(_, _, _)
highLoop(kk, c, e) ==
  IF kk > c.delta /\ ~e.err THEN highLoop(kk - 1, c, visit(kk, c, e)) ELSE e

\* lines 451-481
RECURSIVE mainLoop(_, _, _)
mainLoop(p, c, e) ==
  IF ~e.err /\ FpAt(e.fp, c.delta + c.offset).y < c.N
  THEN LET e1 == lowLoop(-(p + 1), c, e)
           e2 == highLoop(c.delta + p + 1, c, e1)
           e3 == IF e2.err THEN e2 ELSE visit(c.delta, c, e2)
       IN mainLoop(p + 1, c, e3)
  ELSE e

ValueAt(s, i0) == IF i0 + 1 \in DOMAIN s THEN s[i0 + 1] ELSE Undefined

\* lines 374-396
RECURSIVE backTraceLoop(_, _, _, _, _, _, _)
backTraceLoop(j, type, ia, ib, c, routes, acc) ==
  IF j = 0 /\ type = 0 THEN acc
  ELSE LET entry ==
             IF type = REMOVED
               THEN DiffResult(IF c.swapped THEN removed ELSE added,
                               ValueAt(c.B, ib))
             ELSE IF type = ADDED
               THEN DiffResult(IF c.swapped THEN added ELSE removed,
                               ValueAt(c.A, ia))
             ELSE DiffResult(common, ValueAt(c.A, ia))
           ia1 == IF type = REMOVED THEN ia ELSE ia - 1
           ib1 == IF type = ADDED THEN ib ELSE ib - 1
       IN backTraceLoop(RoutesAt(routes, j), RoutesAt(routes, j + c.off),
                        ia1, ib1, c, routes, <<entry>> \o acc)

\* lines 358-398
backTrace(c, current, routes) ==
  backTraceLoop(RoutesAt(routes, current.id),
                RoutesAt(routes, current.id + c.off),
                c.M - 1, c.N - 1, c, routes, <<>>)

\* lines 317-490: the search on A, B with the common entries put around
diffEngine(A0, B0, prefixCommon, suffixCommon) ==
  LET swapped == Len(B0) > Len(A0)
      A == IF swapped THEN B0 ELSE A0
      B == IF swapped THEN A0 ELSE B0
      M == Len(A)
      N == Len(B)
      size == M + N + 1
      routesLen == (M * N + size + 1) * 2
      c == [A |-> A, B |-> B, M |-> M, N |-> N, swapped |-> swapped,
            offset |-> N, delta |-> M - N, off |-> routesLen \div 2]
      e0 == [fp |-> [j \in 0..(size - 1) |-> FarthestPoint(-1, -1)],
             routes |-> [j \in 0..(routesLen - 1) |-> 0],
             ptr |-> 0, err |-> FALSE]
      eF == mainLoop(-1, c, e0)
  IN IF M = 0 /\ N = 0 /\ suffixCommon = <<>> /\ prefixCommon = <<>>
       THEN <<>>
     ELSE IF N = 0
       THEN AllOfType(common, prefixCommon)
              \o AllOfType(IF swapped THEN added ELSE removed, A)
              \o AllOfType(common, suffixCommon)
     ELSE IF eF.err THEN <<DiffResult("TypeError", Undefined)>>
     ELSE AllOfType(common, prefixCommon)
            \o backTrace(c, FpAt(eF.fp, c.delta + c.offset), eF.routes)
            \o AllOfType(common, suffixCommon)

\* lines 305-316, then the search on what is left
diffBody(A, B) ==
  LET prefixCommon == createCommon(A, B, FALSE)
      suffixCommon ==
        Reverse(createCommon(SliceFrom(A, Len(prefixCommon)),
                             SliceFrom(B, Len(prefixCommon)), TRUE))
      A1 == IF Len(suffixCommon) # 0
              THEN SliceFromTo(A, Len(prefixCommon), Len(suffixCommon))
              ELSE SliceFrom(A, Len(prefixCommon))
      B1 == IF Len(suffixCommon) # 0
              THEN SliceFromTo(B, Len(prefixCommon), Len(suffixCommon))
              ELSE SliceFrom(B, Len(prefixCommon))
  IN diffEngine(A1, B1, prefixCommon, suffixCommon)

InitDiff ==
  /\ a \in Seqs
  /\ b \in Seqs
  /\ pc = "diff"
  /\ SequenceIdle
  /\ textA = <<>> /\ textB = <<>>
  /\ TextIdle

\* lines 305-490 run on the inputs
DiffBody ==
  /\ pc = "diff"
  /\ result' = diffBody(a, b)
  /\ pc' = "returned"
  /\ UNCHANGED <<a, b, start, commonPrefix, commonSuffix, i, end, n, m, max,
                 d, k, x, y, v, trace, pred, exit>>
  /\ UNCHANGED textVars

NextDiff == DiffBody

SpecDiff == InitDiff /\ [][NextDiff]_vars

CountOf(t, script) == Cardinality({j \in DOMAIN script : script[j].type = t})
SharesAffix ==
  createCommon(a, b, FALSE) # <<>> \/ createCommon(a, b, TRUE) # <<>>
Untrimmed == diffEngine(a, b, <<>>, <<>>)

CharList == <<"a", " ", "LF", "CR", "(", "TAB", "e_acute", "1">>
\* number of characters of CharList the input strings are made of
NumChars == 3
\* longest input string of diffstr
MaxStrLen == 3
\* longest word script handed to createDetails
MaxTokens == 3

InChars == {CharList[j] : j \in 1..NumChars}
Strings == UNION {[1..l -> InChars] : l \in 0..MaxStrLen}

\* \s
Whitespace == {" ", "TAB", "VT", "FF", "CR", "LF"}
\* [^\S\r\n]
InlineSpace == Whitespace \ {"CR", "LF"}
\* [()[\]{}'"\r\n]
Separators == {"(", ")", "[", "]", "{", "}", "'", "DQUOTE", "CR", "LF"}
AsciiLetters == {"a", "b", "f", "n", "r", "t", "v"}
\* \w
WordChars == AsciiLetters \cup {"1", "_"}
\* the character class of the regular expression words (line 520)
WordsClass == AsciiLetters \cup {"e_acute"}

RECURSIVE Join(_)
Join(ss) == IF ss = <<>> THEN <<>> ELSE Head(ss) \o Join(Tail(ss))

\* lines 500-512: the replacements act on disjoint characters, so the
\* chain of replaceAll calls is one pass from left to right
RECURSIVE unescape(_)
unescape(string) ==
  IF string = <<>> THEN <<>>
  ELSE LET c == Head(string)
       IN IF c = "BS" THEN <<"BSL", "b">> \o unescape(Tail(string))
          ELSE IF c = "FF" THEN <<"BSL", "f">> \o unescape(Tail(string))
          ELSE IF c = "TAB" THEN <<"BSL", "t">> \o unescape(Tail(string))
          ELSE IF c = "VT" THEN <<"BSL", "v">> \o unescape(Tail(string))
          ELSE IF c = "CR" /\ Len(string) >= 2 /\ string[2] = "LF"
            THEN <<"BSL", "r", "BSL", "n", "CR", "LF">>
                   \o unescape(SubSeq(string, 3, Len(string)))
          ELSE IF c = "CR" THEN <<"BSL", "r">> \o unescape(Tail(string))
          ELSE IF c = "LF" THEN <<"BSL", "n", "LF">> \o unescape(Tail(string))
          ELSE <<c>> \o unescape(Tail(string))

IsWordAt(S, q0) == q0 >= 0 /\ q0 < Len(S) /\ S[q0 + 1] \in WordChars

\* end of the run of inline space that starts at 0-based position q0
RECURSIVE SpaceRunEnd(_, _)
SpaceRunEnd(S, q0) ==
  IF q0 < Len(S) /\ S[q0 + 1] \in InlineSpace THEN SpaceRunEnd(S, q0 + 1)
  ELSE q0

\* the regular expression of line 517 matched at position q0 exactly: the
\* end of the match, -1 when it does not match
WordMatchEnd(S, q0) ==
  IF S[q0 + 1] \in InlineSpace THEN SpaceRunEnd(S, q0)
  ELSE IF S[q0 + 1] \in Separators THEN q0 + 1
  ELSE IF IsWordAt(S, q0 - 1) # IsWordAt(S, q0) THEN q0
  ELSE -1

\* the regular expression of line 536 matched at position q0 exactly
LineMatchEnd(S, q0) ==
  IF S[q0 + 1] = "LF" THEN q0 + 1
  ELSE IF S[q0 + 1] = "CR" /\ q0 + 1 < Len(S) /\ S[q0 + 2] = "LF" THEN q0 + 2
  ELSE -1

MatchEnd(S, q0, wordDiff) ==
  IF wordDiff THEN WordMatchEnd(S, q0) ELSE LineMatchEnd(S, q0)

\* String.prototype.split with a regular expression of one capture group:
\* the pieces and the captured separators, from piece start p0 and search
\* position q0 on
RECURSIVE splitFrom(_, _, _, _, _)
splitFrom(S, p0, q0, wordDiff, acc) ==
  IF q0 < Len(S)
  THEN LET e == MatchEnd(S, q0, wordDiff)
       IN IF e = -1 \/ e = p0
            THEN splitFrom(S, p0, q0 + 1, wordDiff, acc)
            ELSE splitFrom(S, e, e, wordDiff,
                           acc \o <<SubSeq(S, p0 + 1, q0), SubSeq(S, q0 + 1, e)>>)
  ELSE Append(acc, SubSeq(S, p0 + 1, Len(S)))

split(S, wordDiff) == IF S = <<>> THEN <<S>> ELSE splitFrom(S, 0, 0, wordDiff, <<>>)

\* words.test(token), line 520
IsWords(token) == token # <<>> /\ \A j \in DOMAIN token : token[j] \in WordsClass

\* lines 523-532, from loop index j0 on
RECURSIVE joinWords(_, _)
joinWords(t, j0) ==
  IF j0 < Len(t) - 1
  THEN IF /\ t[j0 + 2] = <<>>
          /\ j0 + 3 \in DOMAIN t
          /\ t[j0 + 3] # <<>>
          /\ IsWords(t[j0 + 1])
          /\ IsWords(t[j0 + 3])
       THEN joinWords(SubSeq(t, 1, j0) \o <<t[j0 + 1] \o t[j0 + 3]>>
                        \o SubSeq(t, j0 + 4, Len(t)), j0)
       ELSE joinWords(t, j0 + 1)
  ELSE t

IsNonEmpty(token) == token # <<>>

\* lines 544-550, from loop index j0 on
RECURSIVE mergeLines(_, _, _)
mergeLines(lines, j0, acc) ==
  IF j0 < Len(lines)
  THEN IF j0 % 2 = 1
         THEN mergeLines(lines, j0 + 1,
                [acc EXCEPT ![Len(acc)] = @ \o lines[j0 + 1]])
         ELSE mergeLines(lines, j0 + 1, Append(acc, lines[j0 + 1]))
  ELSE acc

\* lines 514-553
tokenize(string, wordDiff) ==
  IF wordDiff
    THEN SelectSeq(joinWords(split(string, TRUE), 0), IsNonEmpty)
    ELSE LET lines == split(string, FALSE)
             kept == IF lines[Len(lines)] = <<>>
                       THEN SubSeq(lines, 1, Len(lines) - 1)
                       ELSE lines
         IN mergeLines(kept, 0, <<>>)

\* /\s+/.test(value), line 566
HasWhitespace(value) == \E j \in DOMAIN value : value[j] \in Whitespace
\* value.trim().length, line 608
HasContent(value) == \E j \in DOMAIN value : value[j] \notin Whitespace

\* createDetails without the comparison with the right neighbour of line
\* 568: a whitespace token takes the type of whatever precedes it
createDetailsLeftOnly(ln, tks) ==
  LET keeps(e) == e.type = ln.type \/ e.type = common
      t == SelectSeq(tks, keeps)
  IN [j \in 1..Len(t) |->
        IF /\ t[j].type = common
           /\ j - 1 \in DOMAIN t
           /\ HasWhitespace(t[j].value)
        THEN [t[j] EXCEPT !.type = t[j - 1].type]
        ELSE t[j]]

\* lines 557-575
createDetails(ln, tks) ==
  LET keeps(e) == e.type = ln.type \/ e.type = common
      t == SelectSeq(tks, keeps)
  IN [j \in 1..Len(t) |->
        IF /\ t[j].type = common
           /\ j - 1 \in DOMAIN t
           /\ j + 1 \in DOMAIN t
           /\ t[j - 1].type = t[j + 1].type
           /\ HasWhitespace(t[j].value)
        THEN [t[j] EXCEPT !.type = t[j - 1].type]
        ELSE t[j]]

\* the calls of diff in diffstr (lines 578 and 602) run on the statements of
\* diff that follow its return of line 303: with that return the line
\* script is empty and the loop of lines 596-619 has nothing to run on
wordDiffOf(aValue, bValue) ==
  diffBody(tokenize(aValue, TRUE), tokenize(bValue, TRUE))

\* line 607
IsMatch(e) == e.type = common /\ HasContent(e.value)
HasMatch(tks) == \E j \in DOMAIN tks : IsMatch(tks[j])

\* lines 600-613: the search for b among the lines left in bLines
RECURSIVE searchLine(_, _, _, _, _)
searchLine(aValue, entries, queue, tks, bIdx) ==
  IF queue # <<>>
  THEN LET b1 == Head(queue)
           tks1 == wordDiffOf(aValue, entries[b1].value)
       IN IF HasMatch(tks1)
            THEN [tokens |-> tks1, b |-> b1, bLines |-> Tail(queue), hit |-> TRUE]
            ELSE searchLine(aValue, entries, Tail(queue), tks1, b1)
  ELSE [tokens |-> tks, b |-> bIdx, bLines |-> queue, hit |-> FALSE]

IndicesOf(t, script) ==
  LET F[j \in 0..Len(script)] ==
        IF j = 0 THEN <<>>
        ELSE IF script[j].type = t THEN Append(F[j - 1], j) ELSE F[j - 1]
  IN F[Len(script)]

InitStr ==
  /\ a = <<>> /\ b = <<>>
  /\ SequenceIdle
  /\ textA \in Strings
  /\ textB \in Strings
  /\ pc = "diffstr"
  /\ TextIdle

seqVars == <<a, b, start, commonPrefix, commonSuffix, i, end, n, m, max,
             d, k, x, y, v, trace, pred, exit, result>>

\* the entries of a script of diff as diffstr holds them: details absent
Undetailed(script) ==
  [j \in 1..Len(script) |->
     [type |-> script[j].type, value |-> script[j].value,
      hasDetails |-> FALSE, details |-> <<>>]]

\* a.details = value
SetDetails(entries, idx, value) ==
  [entries EXCEPT ![idx].hasDetails = TRUE, ![idx].details = value]

\* lines 577-595
LineDiff ==
  /\ pc = "diffstr"
  /\ \E script \in {diffBody(tokenize(unescape(textA) \o <<"LF">>, FALSE),
                             tokenize(unescape(textB) \o <<"LF">>, FALSE))} :
       \E addedLines \in {IndicesOf(added, script)} :
         \E removedLines \in {IndicesOf(removed, script)} :
           /\ diffResult' = Undetailed(script)
           /\ aLines' = IF Len(addedLines) < Len(removedLines)
                          THEN addedLines ELSE removedLines
           /\ bLines' = IF Len(addedLines) < Len(removedLines)
                          THEN removedLines ELSE addedLines
  /\ aPos' = 0
  /\ pc' = "pairing"
  /\ UNCHANGED <<textA, textB, tokens, pairing, line, details, diffMessages>>
  /\ UNCHANGED seqVars

\* lines 596-619, one iteration
PairLine ==
  /\ pc = "pairing"
  /\ aPos < Len(aLines)
  /\ \E aIdx \in {aLines[aPos + 1]} :
       \E r \in {searchLine(diffResult[aIdx].value, diffResult, bLines, <<>>, 0)} :
         \E withA \in {SetDetails(diffResult, aIdx,
                                  createDetails(diffResult[aIdx], r.tokens))} :
           /\ tokens' = r.tokens
           /\ bLines' = r.bLines
           /\ pairing' = [a |-> aIdx, b |-> r.b, hit |-> r.hit]
           /\ diffResult' =
                IF r.b # 0
                  THEN SetDetails(withA, r.b,
                                  createDetails(diffResult[r.b], r.tokens))
                  ELSE withA
  /\ aPos' = aPos + 1
  /\ UNCHANGED <<pc, textA, textB, aLines, line, details, diffMessages>>
  /\ UNCHANGED seqVars

\* line 621
DiffstrReturn ==
  /\ pc = "pairing"
  /\ ~(aPos < Len(aLines))
  /\ pc' = "returned"
  /\ UNCHANGED <<textA, textB, diffResult, aLines, bLines, aPos, tokens,
                 pairing, line, details, diffMessages>>
  /\ UNCHANGED seqVars

\* lines 678-682: the segments a line is rendered from, each with the
\* colour createColor gives it (none for text left as it is)
renderLine(res) ==
  IF res.hasDetails
    THEN [j \in 1..Len(res.details) |->
            [colour |-> IF res.details[j].type # common
                          THEN res.details[j].type ELSE "none",
             text |-> res.details[j].value]]
    ELSE <<[colour |-> "none", text |-> res.value]>>

\* lines 676-684 on the result of diffstr
BuildMessage ==
  /\ pc = "returned"
  /\ diffMessages' = [j \in 1..Len(diffResult) |->
                        [sign |-> diffResult[j].type,
                         line |-> renderLine(diffResult[j])]]
  /\ pc' = "rendered"
  /\ UNCHANGED <<textA, textB, diffResult, aLines, bLines, aPos, tokens,
                 pairing, line, details>>
  /\ UNCHANGED seqVars

NextStr ==
  \/ LineDiff
  \/ PairLine
  \/ DiffstrReturn
  \/ BuildMessage

SpecStr == InitStr /\ [][NextStr]_vars

\* the characters a rendered line shows
RenderedText(msg) == Join([j \in 1..Len(msg.line) |-> msg.line[j].text])

\* no b was found for the last a: bLines was empty, or it ran out without
\* a word script holding a common token with content
NoPairing == pairing.a # 0 /\ ~pairing.hit

Range(f) == {f[j] : j \in DOMAIN f}

\* the lines diffstr can hold and the word tokens they are cut into
LineValues ==
  UNION {Range(tokenize(unescape(str) \o <<"LF">>, FALSE)) : str \in Strings}
WordTokens == UNION {Range(tokenize(ln, TRUE)) : ln \in LineValues}

WordScripts ==
  UNION {[1..l -> [type : {removed, common, added}, value : WordTokens]] :
           l \in 0..MaxTokens}

InitDetails ==
  /\ a = <<>> /\ b = <<>>
  /\ SequenceIdle
  /\ textA = <<>> /\ textB = <<>>
  /\ diffResult = <<>>
  /\ aLines = <<>>
  /\ bLines = <<>>
  /\ aPos = 0
  /\ pairing = [a |-> 0, b |-> 0, hit |-> FALSE]
  /\ diffMessages = <<>>
  /\ details = <<>>
  /\ line \in [type : {added, removed}, value : {<<"a", "LF">>}]
  /\ tokens \in WordScripts
  /\ pc = "createDetails"

\* lines 557-575 run on line and tokens
CreateDetails ==
  /\ pc = "createDetails"
  /\ details' = createDetails(line, tokens)
  /\ pc' = "detailed"
  /\ UNCHANGED <<textA, textB, diffResult, aLines, bLines, aPos, tokens,
                 pairing, line, diffMessages>>
  /\ UNCHANGED seqVars

NextDetails == CreateDetails

SpecDetails == InitDetails /\ [][NextDetails]_vars

PurelyWhitespace(value) ==
  value # <<>> /\ \A j \in DOMAIN value : value[j] \in Whitespace

KeptFor(e) == e.type = line.type \/ e.type = common
\* the word script filtered for the line
Filtered == SelectSeq(tokens, KeptFor)

\* the common whitespace token at j stands between two entries of one
\* kind that are not common
Enclosed(t, j) ==
  /\ t[j].type = common
  /\ PurelyWhitespace(t[j].value)
  /\ j - 1 \in DOMAIN t
  /\ j + 1 \in DOMAIN t
  /\ t[j - 1].type # common
  /\ t[j + 1].type = t[j - 1].type

\* C6: every common word token that is purely whitespace and whose left
\* and right neighbours in the filtered word script are both non-common
\* entries of the same kind is re-tagged to that kind; every other token
\* keeps its type and value.
C6_WhitespaceMerge ==
  pc = "detailed" =>
    /\ Len(details) = Len(Filtered)
    /\ \A j \in DOMAIN Filtered :
         /\ details[j].value = Filtered[j].value
         /\ details[j].type = IF Enclosed(Filtered, j)
                                THEN Filtered[j - 1].type
                                ELSE Filtered[j].type

\* [removed a, common ' ', removed a] has become three removed entries
C6_Witness ==
  /\ pc = "detailed"
  /\ line.type = removed
  /\ tokens = <<DiffResult(removed, <<"a">>), DiffResult(common, <<" ">>),
                DiffResult(removed, <<"a">>)>>
  /\ details = <<DiffResult(removed, <<"a">>), DiffResult(removed, <<" ">>),
                 DiffResult(removed, <<"a">>)>>

=============================================================================
